---- MODULE Spec2Model ----
(***************************************************************************)
(* NeoUdeler: a command-line downloader for subscribed Udemy courses.      *)
(* Model of src/neoudeler.py and src/main.py.                              *)
(*                                                                         *)
(* Python values are encoded as follows.  An optional value (X | None) is  *)
(* a sequence of length at most one: None is <<>>, a present value x is    *)
(* <<x>>.  A string on which the code works character by character (an     *)
(* input line, a title, a path segment, a quality label) is a sequence of  *)
(* one-character strings; other strings are TLA+ strings.                  *)
(***************************************************************************)
EXTENDS Naturals, Sequences, FiniteSets

\* ------------------------------------------------------------------ bounds
\* Longest list of video variants of one StreamUrls.
MaxVideos == 3
\* Number of threads that call Config() concurrently.
MaxThreads == 3
\* Longest line typed at the confirmation prompt.
MaxAnswerLen == 3
\* Longest list of chapters and lectures of a curriculum, in the downloader's
\* own runs and in the runs started from main().
MaxItems == 3
MaxCliItems == 2
\* How many quiz items may follow them (a curriculum has none or this many).
MaxQuizzes == 8
\* How many times download_all_contents is run on the same output directory.
MaxRuns == 2
MaxClientRequests == 4

\* ---------------------------------------------------------- Python values
None == <<>>
Some(x) == <<x>>
IsNone(o) == o = <<>>
Get(o) == o[1]

Min(S) == CHOOSE x \in S : \A y \in S : x <= y

\* The sequences over S of length 0..n.
SeqsUpTo(S, n) == UNION {[1..k -> S] : k \in 0..n}

\* ------------------------------------------------------------- characters
DigitChars == <<"0", "1", "2", "3", "4", "5", "6", "7", "8", "9">>

\* Code point order of the characters quality labels are made of.
CharRank(c) == CHOOSE i \in 1..Len(DigitChars) : DigitChars[i] = c

\* Python's str < str: lexicographic by code point, a proper prefix is smaller.
RECURSIVE StrLess(_, _)
StrLess(a, b) ==
    IF b = <<>> THEN FALSE
    ELSE IF a = <<>> THEN TRUE
    ELSE IF Head(a) # Head(b) THEN CharRank(Head(a)) < CharRank(Head(b))
    ELSE StrLess(Tail(a), Tail(b))

\* ------------------------------------------------------------ VideoFormat
VIDEO_MPEG4 == "video/mp4"
APPLICATION_X_MPEG_URL == "application/x-mpegURL"
VideoFormat == {VIDEO_MPEG4, APPLICATION_X_MPEG_URL}

is_mp4(video_format) == video_format = VIDEO_MPEG4
is_hls(video_format) == video_format = APPLICATION_X_MPEG_URL

\* bool(s) of a Python string: the empty string is false.
Truthy(s) == s # ""

\* video.video_format.VIDEO_MPEG4: an attribute lookup of the member
\* VIDEO_MPEG4 through another member; it yields the member VIDEO_MPEG4
\* whatever the format of the video is.
MemberVIDEO_MPEG4(video_format) == VIDEO_MPEG4

\* ------------------------------------------------------------- StreamUrls
Video(video_format, quality_label, file_url) ==
    [video_format |-> video_format, quality_label |-> quality_label, file_url |-> file_url]

\* sorted(videos, key=quality_label, reverse=True): stable, so variants with
\* equal labels keep their list order.
RECURSIVE InsertDesc(_, _)
InsertDesc(sorted, v) ==
    IF sorted = <<>> THEN <<v>>
    ELSE IF StrLess(Head(sorted).quality_label, v.quality_label)
         THEN <<v>> \o sorted
         ELSE <<Head(sorted)>> \o InsertDesc(Tail(sorted), v)

RECURSIVE SortedDesc(_)
SortedDesc(videos) ==
    IF videos = <<>> THEN <<>>
    ELSE InsertDesc(SortedDesc(SubSeq(videos, 1, Len(videos) - 1)), videos[Len(videos)])

IsMp4Video(v) == v.video_format = VIDEO_MPEG4

\* StreamUrls._get_mp4_highest_quality: the list of mp4 variants, labels descending.
get_mp4_highest_quality(videos) == SelectSeq(SortedDesc(videos), IsMp4Video)

\* The loop's filter: "if not video.video_format.VIDEO_MPEG4: continue".
SkippedByFormat(video) == ~Truthy(MemberVIDEO_MPEG4(video.video_format))

\* StreamUrls.get_mp4_by_quality: the first variant the loop returns; when the
\* loop ends, _get_mp4_highest_quality() is called and its value dropped, so
\* the method returns None.
get_mp4_by_quality(videos, quality) ==
    LET hits == {i \in 1..Len(videos) :
                    /\ ~SkippedByFormat(videos[i])
                    /\ videos[i].quality_label = quality}
    IN  IF hits # {} THEN Some(videos[Min(hits)]) ELSE None


\* ------------------------------------------------------------------ state
VARIABLES
    \* StreamUrls.get_mp4_by_quality called on its own
    videos,             \* StreamUrls.videos
    quality,            \* the quality argument
    result,             \* the value the call returned (None before the call)
    called,             \* whether the call has returned
    \* Singleton.__call__ under threads
    tpc,                \* each thread's position in Singleton.__call__
    lock,               \* Singleton._lock: 0 when free, else the holding thread
    fresh,              \* each thread's newly constructed instance, before it is assigned
    got,                \* what Config() returned to each thread
    \* the Configuration Store
    unique_instance,    \* Config._unique_instance: None or the Config object
    init_calls,         \* how many times Config.__init__ has run
    env,                \* the .env file: key -> value (None: no such key)
    \* the process
    pc,                 \* position in main() / UdemyDownloader / Course.download_all_contents
    error,              \* the exception that ended the run (None: none)
    stdout,             \* what was printed
    log,                \* the lines of neo_udeler.log
    requests,           \* every HTTP call sent, in order
    response,           \* the last response received (None: none yet)
    line,               \* the line input() just returned (None: none pending)
    search_keyword,     \* main's search_keyword
    subscribed_courses, \* main's subscribed_courses (None before the listing)
    course,             \* the selected Course (None: none)
    answer,             \* main's answer (None before the confirmation)
    \* Course.download_all_contents
    curriculum,         \* the platform's curriculum items of the course (JSON results)
    run,                \* which invocation of download_all_contents this is
    contents,           \* the CourseContent list fetched (None before the fetch)
    save_dir,           \* the course root directory name
    chapter_number,
    lecture_number,
    chapter_dir,        \* the current chapter directory name
    current,            \* enumerate(contents, start=1): the item in hand, 0 before the loop
    cursor,             \* how many supplementary downloads of the lecture in hand are done
    dirs,               \* the directories below the output directory (paths)
    files               \* the files below the output directory: path -> what was written

qualityVars == <<videos, quality, result, called>>
threadVars == <<tpc, lock, fresh, got>>
configVars == <<unique_instance, init_calls, env>>
mainVars == <<pc, error, stdout, log, requests, response, line, search_keyword,
              subscribed_courses, course, answer>>
downloadVars == <<curriculum, run, contents, save_dir, chapter_number, lecture_number,
                  chapter_dir, current, cursor, dirs, files>>
vars == <<qualityVars, threadVars, configVars, mainVars, downloadVars>>

\* ------------------------------------------------------ the Config object
\* dotenv.get_key: the value of the key, None when the file has no such key.
get_key(file, key) == file[key]

\* Config.__init__ with _load_dotenv: the four keys read from the .env file.
\* oid is the identity of the object (the n-th Config constructed).
NewConfig(file, oid) ==
    [oid |-> oid,
     _email |-> get_key(file, "UDEMY_EMAIL"),
     _password |-> get_key(file, "UDEMY_PASSWORD"),
     _sub_domain |-> get_key(file, "SUB_DOMAIN"),
     _access_token |-> get_key(file, "ACCESS_TOKEN")]

\* The getter without the empty-string rule.
access_token_raw(cfg) == cfg._access_token

\* Config.access_token (getter): the empty string reads as None.
access_token(cfg) == IF cfg._access_token # Some("") THEN cfg._access_token ELSE None

\* Config.udemy_base_url
udemy_base_url(cfg) == <<"https://", cfg._sub_domain, ".udemy.com">>

\* "not cls._unique_instance": None is false, a Config object is true.
NoInstance(u) == IsNone(u)

\* The second test left out: the object is constructed whenever the lock is held.
NoInstanceLockedUntested(u) == TRUE

\* The second test of Singleton.__call__, made while holding the lock.
NoInstanceLocked(u) == NoInstance(u)

\* Singleton.__call__ in a single thread: the instance after the call.
ConfigCall(u, file, n) == IF NoInstance(u) THEN Some(NewConfig(file, n + 1)) ELSE u
ConfigCalls(u, n) == IF NoInstance(u) THEN n + 1 ELSE n

\* The .env file of the examples.
EnvFile(email, password, token) ==
    [UDEMY_EMAIL |-> email, UDEMY_PASSWORD |-> password,
     SUB_DOMAIN |-> Some("corp"), ACCESS_TOKEN |-> token]


\* -------------------------------------------- values of the parts not in use
QualityIdle == videos = <<>> /\ quality = <<>> /\ result = None /\ called = FALSE
ThreadsIdle == tpc = <<>> /\ lock = 0 /\ fresh = <<>> /\ got = <<>>
MainIdle ==
    /\ pc = "off" /\ error = None /\ stdout = <<>> /\ log = <<>> /\ requests = <<>>
    /\ response = None /\ line = None /\ search_keyword = None
    /\ subscribed_courses = None /\ course = None /\ answer = None
DownloadIdle ==
    /\ curriculum = <<>> /\ run = 1 /\ contents = None /\ save_dir = None
    /\ chapter_number = 0 /\ lecture_number = 0 /\ chapter_dir = None
    /\ current = 0 /\ cursor = 0 /\ dirs = {} /\ files = {}

\* =================================== StreamUrls.get_mp4_by_quality on its own
QualityLabels == {<<"4", "8", "0">>, <<"7", "2", "0">>, <<"1", "0", "8", "0">>}
VideoPool ==
    {Video(f, l, u) : f \in VideoFormat,
                      l \in {<<"7", "2", "0">>, <<"1", "0", "8", "0">>},
                      u \in {"https://cdn/a", "https://cdn/b"}}

InitQuality ==
    /\ videos \in SeqsUpTo(VideoPool, MaxVideos)
    /\ quality \in QualityLabels
    /\ result = None
    /\ called = FALSE
    /\ ThreadsIdle /\ MainIdle /\ DownloadIdle
    /\ unique_instance = None /\ init_calls = 0 /\ env = EnvFile(None, None, None)

\* stream_urls.get_mp4_by_quality(quality)
CallGetMp4ByQuality ==
    /\ ~called
    /\ result' = get_mp4_by_quality(videos, quality)
    /\ called' = TRUE
    /\ UNCHANGED <<videos, quality, threadVars, configVars, mainVars, downloadVars>>

NextQuality == CallGetMp4ByQuality
SpecQuality == InitQuality /\ [][NextQuality]_vars

\* ============================================= Config() called from threads
Threads == 1..MaxThreads

InitSingleton ==
    /\ tpc = [t \in Threads |-> "test"]
    /\ lock = 0
    /\ fresh = [t \in Threads |-> None]
    /\ got = [t \in Threads |-> None]
    /\ unique_instance = None
    /\ init_calls = 0
    /\ env \in {EnvFile(Some("u@example.com"), Some("pw"), tok) : tok \in {None, Some("tok")}}
    /\ QualityIdle /\ MainIdle /\ DownloadIdle

\* "if not cls._unique_instance:" outside the lock
TestInstance(t) ==
    /\ tpc[t] = "test"
    /\ tpc' = [tpc EXCEPT ![t] = IF NoInstance(unique_instance) THEN "acquire" ELSE "return"]
    /\ UNCHANGED <<lock, fresh, got, configVars, qualityVars, mainVars, downloadVars>>

\* "with cls._lock:" entered
AcquireLock(t) ==
    /\ tpc[t] = "acquire"
    /\ lock = 0
    /\ lock' = t
    /\ tpc' = [tpc EXCEPT ![t] = "test_locked"]
    /\ UNCHANGED <<fresh, got, configVars, qualityVars, mainVars, downloadVars>>

\* "if not cls._unique_instance:" inside the lock
TestInstanceLocked(t) ==
    /\ tpc[t] = "test_locked"
    /\ tpc' = [tpc EXCEPT ![t] =
                  IF NoInstanceLocked(unique_instance) THEN "construct" ELSE "release"]
    /\ UNCHANGED <<lock, fresh, got, configVars, qualityVars, mainVars, downloadVars>>

\* super().__call__(*args, **kwargs): a new Config, Config.__init__ run on it
ConstructInstance(t) ==
    /\ tpc[t] = "construct"
    /\ init_calls' = init_calls + 1
    /\ fresh' = [fresh EXCEPT ![t] = Some(NewConfig(env, init_calls + 1))]
    /\ tpc' = [tpc EXCEPT ![t] = "assign"]
    /\ UNCHANGED <<lock, got, unique_instance, env, qualityVars, mainVars, downloadVars>>

\* cls._unique_instance = <the new object>
AssignInstance(t) ==
    /\ tpc[t] = "assign"
    /\ unique_instance' = fresh[t]
    /\ tpc' = [tpc EXCEPT ![t] = "release"]
    /\ UNCHANGED <<lock, fresh, got, init_calls, env, qualityVars, mainVars, downloadVars>>

\* the with block left
ReleaseLock(t) ==
    /\ tpc[t] = "release"
    /\ lock' = 0
    /\ tpc' = [tpc EXCEPT ![t] = "return"]
    /\ UNCHANGED <<fresh, got, configVars, qualityVars, mainVars, downloadVars>>

\* "return cls._unique_instance"
ReturnInstance(t) ==
    /\ tpc[t] = "return"
    /\ got' = [got EXCEPT ![t] = unique_instance]
    /\ tpc' = [tpc EXCEPT ![t] = "done"]
    /\ UNCHANGED <<lock, fresh, configVars, qualityVars, mainVars, downloadVars>>

NextSingleton ==
    \E t \in Threads :
        \/ TestInstance(t)
        \/ AcquireLock(t)
        \/ TestInstanceLocked(t)
        \/ ConstructInstance(t)
        \/ AssignInstance(t)
        \/ ReleaseLock(t)
        \/ ReturnInstance(t)
SpecSingleton == InitSingleton /\ [][NextSingleton]_vars


\* ===================================================== strings of main.py
\* The whitespace str.strip() removes, as far as the typed lines contain it.
Whitespace == {" ", "\t", "\n"}

RECURSIVE LStrip(_)
LStrip(s) == IF s # <<>> /\ Head(s) \in Whitespace THEN LStrip(Tail(s)) ELSE s

RECURSIVE RStrip(_)
RStrip(s) ==
    IF s # <<>> /\ s[Len(s)] \in Whitespace THEN RStrip(SubSeq(s, 1, Len(s) - 1)) ELSE s

\* lstrip() in place of strip()
StripLeftOnly(s) == LStrip(s)

\* str.strip()
Strip(s) == RStrip(LStrip(s))

UpperChars == <<"A", "B", "C", "D", "E", "F", "G", "H", "I", "J", "K", "L", "M",
                "N", "O", "P", "Q", "R", "S", "T", "U", "V", "W", "X", "Y", "Z">>
LowerChars == <<"a", "b", "c", "d", "e", "f", "g", "h", "i", "j", "k", "l", "m",
                "n", "o", "p", "q", "r", "s", "t", "u", "v", "w", "x", "y", "z">>

LowerChar(c) ==
    IF \E i \in 1..Len(UpperChars) : UpperChars[i] = c
    THEN LowerChars[CHOOSE i \in 1..Len(UpperChars) : UpperChars[i] = c]
    ELSE c

\* str.lower()
Lower(s) == [i \in 1..Len(s) |-> LowerChar(s[i])]

\* input(...).strip().lower() of the confirmation prompt
NormalizeAnswer(raw) == Lower(Strip(raw))

\* "answer not in ['y', 'yes']" negated
IsYes(a) == a \in {<<"y">>, <<"y", "e", "s">>}

\* prompt_for_search_keyword() and "None if search_keyword == 'all' else search_keyword"
KeywordOf(raw) == IF Strip(raw) = <<"a", "l", "l">> THEN None ELSE Some(Strip(raw))

\* ================================================================== HTTP
HttpStatuses == {200, 403}

\* logging: logger.info against the level basicConfig sets (logging.ERROR).
LoggingINFO == 20
LoggingERROR == 40
BasicConfigLevel == LoggingERROR

\* write_log(response): logger.info(URL, status); the record reaches the file
\* only if its level is at least the configured one.
write_log(lg, resp) ==
    IF LoggingINFO >= BasicConfigLevel
    THEN Append(lg, [url |-> resp.url, status_code |-> resp.status_code])
    ELSE lg

\* check_response(response) raises: the status is not 200.
check_response_raises(resp) == resp.status_code # 200

\* The error field never looked at.
check_too_many_request_error_never(resp) == FALSE

\* UdemyDownloader._check_too_many_request_error raises: the JSON has an error field.
check_too_many_request_error_raises(resp) == ~IsNone(resp.json_error)

Request(method, url, status) == [method |-> method, url |-> url, status_code |-> status]

\* A response of the platform. json_ok: the body parses as JSON; json_error: its
\* "error" field; cookie: the access_token cookie; payload: count and results.
Response(url, status, json_ok, json_error, cookie, payload) ==
    [url |-> url, status_code |-> status, json_ok |-> json_ok,
     json_error |-> json_error, cookie |-> cookie, payload |-> payload]

LoginUrl(cfg) == udemy_base_url(cfg) \o <<"/join/login-popup/?next=organization/home">>
CoursesUrl(cfg) == udemy_base_url(cfg) \o <<"/api-2.0/users/me/subscribed-courses">>
CurriculumUrl(cfg, course_id) ==
    udemy_base_url(cfg) \o <<"/api-2.0/courses/", course_id, "/cached-subscriber-curriculum-items">>

\* An exception leaves main(): the process ends with a traceback.
Raise(kind) == pc' = "crashed" /\ error' = Some(kind)

\* -------------------------------------------------------- course listing
\* One course of the listing's JSON results.
CourseJson ==
    [id |-> 101, title |-> <<"P", "y", ":", "1">>, url |-> "/course/py/",
     visible_instructors |-> <<[display_name |-> <<"A", "l">>], [display_name |-> <<"B", "o">>]>>]

ListingPayloads ==
    {[count |-> 0, results |-> <<>>], [count |-> 1, results |-> <<CourseJson>>]}

\* UdemyDownloader._create_visible_instructors_list
create_visible_instructors_list(results) ==
    [i \in 1..Len(results) |-> [display_name |-> results[i].display_name]]

\* UdemyDownloader._create_course_list
create_course_list(cfg, results) ==
    [i \in 1..Len(results) |->
        [course_id |-> results[i].id,
         title |-> results[i].title,
         url |-> udemy_base_url(cfg) \o <<results[i].url>>,
         visible_instructors |-> create_visible_instructors_list(results[i].visible_instructors)]]

\* SubscribedCourseList.find_course_by_course_id
find_course_by_course_id(courses, course_id) ==
    LET hits == {i \in 1..Len(courses) : courses[i].course_id = course_id}
    IN  IF hits # {} THEN Some(courses[Min(hits)]) ELSE None


\* ================================================================ main()
AnswerChars == {" ", "y", "Y", "e", "E", "s", "S", "n"}
AnswerLines == SeqsUpTo(AnswerChars, MaxAnswerLen)
KeywordLines == {<<"a", "l", "l">>, <<" ", "a", "l", "l", " ">>, <<"p", "y">>}
\* What is typed at the course id prompt: a number, or None for a line int() rejects.
CourseIdLines == {Some(0), Some(101), Some(999), None}
\* response_post.cookies.get('access_token'): None when the response sets no
\* such cookie or sets it to the empty value, otherwise the cookie's value,
\* which for a quoted empty value is the two quote characters.
LoginCookies == {None, Some("\"\""), Some("tok")}
\* ACCESS_TOKEN in the .env file: no such key, an empty value, or a token.
EnvTokens == {None, Some(""), Some("tok")}
LoginErrors == {None, Some("errors"), Some("no data")}

\* "if not email or not password": None and the empty string are false.
Missing(v) == IsNone(v) \/ v = Some("")

\* main.py lines 27-31: get_credentials_from_env and the credential check
CheckCredentials ==
    /\ pc = "main"
    /\ IF Missing(get_key(env, "UDEMY_EMAIL")) \/ Missing(get_key(env, "UDEMY_PASSWORD"))
       THEN /\ stdout' = Append(stdout, <<"Set login email and password to .env file">>)
            /\ pc' = "exited"
       ELSE /\ pc' = "new_downloader"
            /\ UNCHANGED stdout
    /\ UNCHANGED <<error, log, requests, response, line, search_keyword, subscribed_courses,
                   course, answer, configVars, qualityVars, threadVars, downloadVars>>

\* UdemyDownloader.__init__: Config(), and the login when no token is stored
NewDownloader ==
    /\ pc = "new_downloader"
    /\ unique_instance' = ConfigCall(unique_instance, env, init_calls)
    /\ init_calls' = ConfigCalls(unique_instance, init_calls)
    /\ IF IsNone(access_token(Get(unique_instance')))
       THEN /\ pc' = "login_get"
            /\ stdout' = Append(stdout, <<"Login...">>)
       ELSE /\ pc' = "prompt_keyword"
            /\ UNCHANGED stdout
    /\ UNCHANGED <<error, log, requests, response, line, search_keyword, subscribed_courses,
                   course, answer, env, qualityVars, threadVars, downloadVars>>

\* _login_udemy: the GET of the base URL and its check
LoginGet ==
    /\ pc = "login_get"
    /\ \E status \in HttpStatuses :
        LET cfg == Get(unique_instance)
            resp == Response(udemy_base_url(cfg), status, FALSE, None, None, None)
        IN  /\ requests' = Append(requests, Request("GET", resp.url, status))
            /\ response' = Some(resp)
            /\ IF check_response_raises(resp)
               THEN /\ log' = write_log(log, resp)
                    /\ Raise("NeoUdelerError: status")
               ELSE /\ pc' = "login_post"
                    /\ UNCHANGED <<log, error>>
    /\ UNCHANGED <<stdout, line, search_keyword, subscribed_courses, course, answer,
                   configVars, qualityVars, threadVars, downloadVars>>

\* Config.access_token (setter): the attribute is set, then dotenv.set_key
\* writes the file; set_key fails on a value that is not a string.
SetTokenInMemory(cfg, token) == [cfg EXCEPT !._access_token = token]
SetKey(file, token) == [file EXCEPT !["ACCESS_TOKEN"] = token]

\* _login_udemy: the POST, its checks, and the token written to the Config
LoginPost ==
    /\ pc = "login_post"
    /\ \E status \in HttpStatuses, json_ok \in BOOLEAN, err \in LoginErrors,
          cookie \in LoginCookies :
        LET cfg == Get(unique_instance)
            resp == Response(LoginUrl(cfg), status, json_ok,
                             IF json_ok THEN err ELSE None, cookie, None)
        IN  /\ requests' = Append(requests, Request("POST", resp.url, status))
            /\ IF check_response_raises(resp)
               THEN /\ log' = write_log(log, resp)
                    /\ Raise("NeoUdelerError: status")
                    /\ response' = Some(resp)
                    /\ UNCHANGED <<unique_instance, env>>
               ELSE IF ~resp.json_ok
               THEN /\ Raise("JSONDecodeError")
                    /\ response' = Some(resp)
                    /\ UNCHANGED <<log, unique_instance, env>>
               ELSE IF check_too_many_request_error_raises(resp)
               THEN /\ log' = write_log(log, resp)
                    /\ Raise(IF resp.json_error = Some("errors")
                             THEN "NeoUdelerError: Login failed" ELSE "AttributeError")
                    /\ response' = Some(resp)
                    /\ UNCHANGED <<unique_instance, env>>
               ELSE /\ unique_instance' = Some(SetTokenInMemory(cfg, resp.cookie))
                    /\ IF IsNone(resp.cookie)
                       THEN /\ Raise("AttributeError")
                            /\ response' = Some(resp)
                            /\ UNCHANGED env
                       ELSE /\ env' = SetKey(env, resp.cookie)
                            /\ pc' = "prompt_keyword"
                            /\ response' = Some(resp)
                            /\ UNCHANGED error
                    /\ UNCHANGED log
    /\ UNCHANGED <<stdout, line, search_keyword, subscribed_courses, course, answer,
                   init_calls, qualityVars, threadVars, downloadVars>>

\* main.py lines 34-35: the search keyword prompt
PromptKeyword ==
    /\ pc = "prompt_keyword"
    /\ \E raw \in KeywordLines : search_keyword' = KeywordOf(raw)
    /\ pc' = "fetch_courses"
    /\ UNCHANGED <<error, stdout, log, requests, response, line, subscribed_courses,
                   course, answer, configVars, qualityVars, threadVars, downloadVars>>

\* UdemyDownloader._is_authenticated
is_authenticated(cfg) == ~IsNone(access_token(cfg))

\* UdemyDownloader.fetch_subscribed_courses
FetchSubscribedCourses ==
    /\ pc = "fetch_courses"
    /\ LET cfg == Get(unique_instance)
       IN  IF ~is_authenticated(cfg)
           THEN /\ Raise("NeoUdelerError: Not Authenticated")
                /\ UNCHANGED <<requests, response, log, subscribed_courses>>
           ELSE \E status \in HttpStatuses, payload \in ListingPayloads :
                LET resp == Response(CoursesUrl(cfg), status, TRUE, None, None, Some(payload))
                IN  /\ requests' = Append(requests, Request("GET", resp.url, status))
                    /\ IF check_response_raises(resp)
                       THEN /\ log' = write_log(log, resp)
                            /\ Raise("NeoUdelerError: status")
                            /\ response' = Some(resp)
                            /\ UNCHANGED subscribed_courses
                       ELSE /\ subscribed_courses' =
                                Some([search_keyword |-> search_keyword,
                                      course_count |-> payload.count,
                                      courses |-> create_course_list(cfg, payload.results)])
                            /\ pc' = "listed"
                            /\ response' = Some(resp)
                            /\ UNCHANGED <<log, error>>
    /\ UNCHANGED <<stdout, line, search_keyword, course, answer,
                   configVars, qualityVars, threadVars, downloadVars>>

\* main.py lines 39-43: "Course not found", or the courses displayed
DisplayCourses ==
    /\ pc = "listed"
    /\ LET list == Get(subscribed_courses)
       IN  IF list.course_count = 0
           THEN /\ stdout' = Append(stdout, <<"Course not found">>)
                /\ pc' = "exited"
           ELSE /\ stdout' = stdout
                      \o [i \in 1..Len(list.courses) |->
                             <<"course", list.courses[i].course_id, list.courses[i].title>>]
                      \o <<<<"[0] Cancel to download">>>>
                /\ pc' = "prompt_course"
    /\ UNCHANGED <<error, log, requests, response, line, search_keyword, subscribed_courses,
                   course, answer, configVars, qualityVars, threadVars, downloadVars>>

\* main.py lines 45-50: the course id prompt and the lookup
SelectCourse ==
    /\ pc = "prompt_course"
    /\ \E typed \in CourseIdLines :
        IF IsNone(typed)
        THEN /\ Raise("ValueError")
             /\ UNCHANGED <<stdout, course>>
        ELSE IF Get(typed) = 0
        THEN /\ stdout' = Append(stdout, <<"Bye!">>)
             /\ pc' = "exited"
             /\ UNCHANGED <<error, course>>
        ELSE /\ course' = find_course_by_course_id(Get(subscribed_courses).courses, Get(typed))
             /\ pc' = "prompt_confirm"
             /\ UNCHANGED <<error, stdout>>
    /\ UNCHANGED <<log, requests, response, line, search_keyword, subscribed_courses,
                   answer, configVars, qualityVars, threadVars, downloadVars>>

\* main.py line 51: the prompt text reads course.title, then input() returns a line
PromptConfirm ==
    /\ pc = "prompt_confirm"
    /\ IF IsNone(course)
       THEN /\ Raise("AttributeError")
            /\ UNCHANGED line
       ELSE /\ \E raw \in AnswerLines : line' = Some(raw)
            /\ pc' = "confirm"
            /\ UNCHANGED error
    /\ UNCHANGED <<stdout, log, requests, response, search_keyword, subscribed_courses,
                   course, answer, configVars, qualityVars, threadVars, downloadVars>>

\* main.py lines 51-57: the line normalized, and the branch on it
Confirm ==
    /\ pc = "confirm"
    /\ answer' = Some(NormalizeAnswer(Get(line)))
    /\ line' = None
    /\ IF ~IsYes(Get(answer'))
       THEN /\ stdout' = Append(stdout, <<"Download is stopped">>)
            /\ pc' = "exited"
       ELSE /\ pc' = "download"
            /\ UNCHANGED stdout
    /\ UNCHANGED <<error, log, requests, response, search_keyword, subscribed_courses,
                   course, configVars, qualityVars, threadVars, downloadVars>>

MainNext ==
    \/ CheckCredentials
    \/ NewDownloader
    \/ LoginGet
    \/ LoginPost
    \/ PromptKeyword
    \/ FetchSubscribedCourses
    \/ DisplayCourses
    \/ SelectCourse
    \/ PromptConfirm
    \/ Confirm


\* ===================================================== names and paths
\* str(n) for a natural number
RECURSIVE Str(_)
Str(n) == IF n < 10 THEN <<DigitChars[n + 1]>>
          ELSE Str(n \div 10) \o <<DigitChars[(n % 10) + 1]>>

\* str.zfill(width)
RECURSIVE zfill(_, _)
zfill(s, width) == IF Len(s) >= width THEN s ELSE zfill(<<"0">> \o s, width)

\* The full-width solidus, one character.
FULLWIDTH_SOLIDUS == "U+FF0F"

Last(seq) == seq[Len(seq)]
RemoveChars(s, chars) == SelectSeq(s, LAMBDA c : c \notin chars)
ReplaceChars(s, chars, by) == [i \in 1..Len(s) |-> IF s[i] \in chars THEN by ELSE s[i]]

\* pathvalidate.sanitize_filepath (universal platform) on names that have no
\* drive prefix, no empty, "." or ".." entry, no reserved name and no entry
\* ending in a space or a dot: the characters invalid in a path are removed
\* and the separators become "/".
sanitize_filepath(s) ==
    ReplaceChars(RemoveChars(s, {":", "*", "?", "\"", "<", ">", "|", "\t", "\n"}), {"\\"}, "/")

\* Course._sanitize_filename
InvalidChars == {"<", ">", ":", "\"", "|", "?", "*"}
SlashChars == {"/", "\\"}
sanitize_filename(filename) ==
    ReplaceChars(RemoveChars(sanitize_filepath(filename), InvalidChars),
                 SlashChars, FULLWIDTH_SOLIDUS)

\* ",".join(names)
RECURSIVE JoinComma(_)
JoinComma(names) ==
    IF names = <<>> THEN <<>>
    ELSE IF Len(names) = 1 THEN names[1]
    ELSE names[1] \o <<",">> \o JoinComma(Tail(names))

\* The entries of a relative path string: split at "/".
RECURSIVE SplitPath(_)
SplitPath(s) ==
    IF \A i \in 1..Len(s) : s[i] # "/" THEN <<s>>
    ELSE LET k == Min({i \in 1..Len(s) : s[i] = "/"})
         IN  <<SubSeq(s, 1, k - 1)>> \o SplitPath(SubSeq(s, k + 1, Len(s)))

\* os.path.join of relative parts, as the list of the path's entries.
RECURSIVE join(_)
join(parts) == IF parts = <<>> THEN <<>> ELSE SplitPath(Head(parts)) \o join(Tail(parts))

Parent(path) == SubSeq(path, 1, Len(path) - 1)
IsPrefix(p, q) == Len(p) <= Len(q) /\ SubSeq(q, 1, Len(p)) = p

\* --------------------------------------------------------- the file system
\* The output directory itself ('.') is the empty path and always exists.
isdir(ds, path) == path = <<>> \/ path \in ds
isfile(fs, path) == \E f \in fs : f.path = path

\* os.mkdir raises: the parent is missing, or the path exists.
mkdir_raises(ds, fs, path) == ~isdir(ds, Parent(path)) \/ isdir(ds, path) \/ isfile(fs, path)

\* mkdir_unless_already_exists: the exception it ends in, or None. It raises
\* NeoUdelerError for a directory that exists; otherwise os.mkdir raises for a
\* file in the path's place, and for a parent that is a file or is missing.
mkdir_unless_already_exists_error(ds, fs, path) ==
    IF isdir(ds, path) THEN Some("NeoUdelerError: already exists")
    ELSE IF isfile(fs, path) THEN Some("FileExistsError")
    ELSE IF isfile(fs, Parent(path)) THEN Some("NotADirectoryError")
    ELSE IF ~isdir(ds, Parent(path)) THEN Some("FileNotFoundError")
    ELSE None

\* mkdir_unless_already_exists: the directories after the call.
mkdir_unless_already_exists(ds, fs, path) ==
    IF IsNone(mkdir_unless_already_exists_error(ds, fs, path)) THEN ds \cup {path} ELSE ds

\* rmtree leaving the files in place
rmtree_files_kept(fs, path) == fs

\* shutil.rmtree
rmtree_dirs(ds, path) == {d \in ds : ~IsPrefix(path, d)}
rmtree_files(fs, path) == {f \in fs : ~IsPrefix(path, f.path)}

\* open(path, 'w') raises: the parent directory is missing, or the path is a directory.
open_raises(ds, path) == ~isdir(ds, Parent(path)) \/ isdir(ds, path)

\* The file written (created or truncated) at path.
write_file(fs, path, data, r) ==
    {f \in fs : f.path # path} \cup {[path |-> path, data |-> data, run |-> r]}

\* ----------------------------------------------- the content domain model
CHAPTER == "chapter"
LECTURE == "lecture"
QUIZ == "quiz"
AssetVIDEO == "Video"
AssetARTICLE == "Article"
AssetFILE == "File"

\* Course._create_stream_urls
create_stream_urls(json) ==
    IF IsNone(json.Video) THEN None
    ELSE Some([i \in 1..Len(Get(json.Video)) |->
                  Video(Get(json.Video)[i].type, Get(json.Video)[i].label, Get(json.Video)[i].file)])

\* Course._create_download_urls
create_download_urls(json) ==
    IF IsNone(json.File) THEN None
    ELSE Some([i \in 1..Len(Get(json.File)) |->
                  [label |-> Get(json.File)[i].label, file_url |-> Get(json.File)[i].file]])

\* Course._create_asset
create_asset(json) ==
    [asset_id |-> json.id,
     asset_type |-> json.asset_type,
     title |-> json.title,
     description |-> json.description,
     body |-> json.body,
     stream_urls |-> IF IsNone(json.stream_urls) THEN None
                     ELSE create_stream_urls(Get(json.stream_urls)),
     download_urls |-> IF IsNone(json.download_urls) THEN None
                       ELSE create_download_urls(Get(json.download_urls))]

\* Course._create_supplementary_assets_list
create_supplementary_assets_list(results) == [i \in 1..Len(results) |-> create_asset(results[i])]

\* Course._create_course_contents_list
create_course_contents_list(course_id, results) ==
    [i \in 1..Len(results) |->
        [course_id |-> course_id,
         course_content_id |-> results[i].id,
         course_content_type |-> results[i]._class,
         title |-> results[i].title,
         description |-> results[i].description,
         asset |-> IF IsNone(results[i].asset) THEN None
                   ELSE Some(create_asset(Get(results[i].asset))),
         supplementary_assets |->
             IF IsNone(results[i].supplementary_assets) THEN None
             ELSE Some(create_supplementary_assets_list(Get(results[i].supplementary_assets)))]]

is_chapter(content) == content.course_content_type = CHAPTER
is_lecture(content) == content.course_content_type = LECTURE
is_quiz(content) == content.course_content_type = QUIZ
is_video(asset) == asset.asset_type = AssetVIDEO
is_article(asset) == asset.asset_type = AssetARTICLE


\* ------------------------------------------- curriculum items of the examples
VideoJson(type, label, file) == [type |-> type, label |-> label, file |-> file]
FileJson(label, file) == [label |-> label, file |-> file]
AssetJson(id, asset_type, title, body, description, stream_urls, download_urls) ==
    [id |-> id, asset_type |-> asset_type, title |-> title, body |-> body,
     description |-> description, stream_urls |-> stream_urls, download_urls |-> download_urls]
ItemJson(class, id, title, asset, supplementary_assets) ==
    [_class |-> class, id |-> id, title |-> title, description |-> None,
     asset |-> asset, supplementary_assets |-> supplementary_assets]

L480 == <<"4", "8", "0">>
L720 == <<"7", "2", "0">>
L1080 == <<"1", "0", "8", "0">>

ChapterItem == ItemJson(CHAPTER, 1, <<"I", ":", "/", "O">>, None, None)
QuizItem == ItemJson(QUIZ, 2, <<"Q">>, None, None)
\* a video lecture with a 720 mp4 variant
PlayableLecture ==
    ItemJson(LECTURE, 3, <<"L", "1", "?">>,
        Some(AssetJson(30, AssetVIDEO, <<"v">>, None, None,
            Some([Video |-> Some(<<VideoJson(VIDEO_MPEG4, L1080, <<"https://cdn/v1080">>),
                                   VideoJson(VIDEO_MPEG4, L720, <<"https://cdn/v720">>)>>)]),
            None)),
        Some(<<>>))
\* a video lecture whose asset carries no stream URLs (DRM-protected)
DrmLecture ==
    ItemJson(LECTURE, 4, <<"L", "2">>,
        Some(AssetJson(40, AssetVIDEO, <<"v">>, None, None, None, None)),
        Some(<<>>))
\* a video lecture with no variant labelled 720
LowQualityLecture ==
    ItemJson(LECTURE, 5, <<"L", "3">>,
        Some(AssetJson(50, AssetVIDEO, <<"v">>, None, None,
            Some([Video |-> Some(<<VideoJson(VIDEO_MPEG4, L480, <<"https://cdn/v480">>)>>)]),
            None)),
        Some(<<>>))
\* a lecture with neither an asset nor supplementary assets
BareLecture == ItemJson(LECTURE, 6, <<"L", "4">>, None, None)
\* an article lecture
ArticleLecture ==
    ItemJson(LECTURE, 7, <<"A", "r", ":", "t">>,
        Some(AssetJson(70, AssetARTICLE, <<"a">>, Some("<p>text</p>"), Some("about"), None, None)),
        Some(<<>>))
\* a file lecture with two supplementary assets: a file and a video
FileLecture ==
    ItemJson(LECTURE, 8, <<"L", "5">>,
        Some(AssetJson(80, AssetFILE, <<"f">>, None, None, None,
            Some([File |-> Some(<<FileJson("pdf", <<"https://cdn/f.pdf">>)>>)]))),
        Some(<<AssetJson(81, AssetFILE, <<"S", "/", "1">>, None, None,
                   Some([Video |-> None]),
                   Some([File |-> Some(<<FileJson("zip", <<"https://cdn/s.zip">>)>>)])),
               AssetJson(82, AssetVIDEO, <<"S", "*", "2">>, None, None,
                   Some([Video |-> Some(<<VideoJson(VIDEO_MPEG4, L720, <<"https://cdn/s720">>)>>)]),
                   None)>>))

ItemPool == {ChapterItem, PlayableLecture, DrmLecture, LowQualityLecture, BareLecture,
             ArticleLecture, FileLecture}

Quizzes(n) == [i \in 1..n |-> QuizItem]

\* The curricula: up to n chapters and lectures, then no quiz or MaxQuizzes of them.
Curricula(n) == {core \o Quizzes(q) : core \in SeqsUpTo(ItemPool, n), q \in {0, MaxQuizzes}}
CliCurricula == SeqsUpTo(ItemPool \cup {QuizItem}, MaxCliItems)

\* datetime.datetime.today().strftime('%Y%m%d')
Today == <<"2", "0", "2", "4", "0", "1", "0", "1">>


\* ======================================== Course.download_all_contents
total == Len(Get(contents))
dirname_prefix_digits == Len(Str(total))

\* raw_dir_name and sanitized_dir_name of the course root
RootDirName(c) ==
    sanitize_filename(Today \o <<"_">> \o c.title \o <<" ", "-", " ">>
                      \o JoinComma([i \in 1..Len(c.visible_instructors) |->
                                       c.visible_instructors[i].display_name]))

\* The default chapter directory: f'{str(0).zfill(dirname_prefix_digits)}_init'
InitDirName(digits) == zfill(Str(0), digits) \o <<"_", "i", "n", "i", "t">>

\* The chapter directory named without zero-filling the number.
ChapterDirNameUnfilled(n, digits, title) == sanitize_filename(Str(n) \o <<"_">> \o title)

\* The directory of a chapter entry: the number, zero-filled, and the title, sanitized.
ChapterDirName(n, digits, title) ==
    sanitize_filename(zfill(Str(n), digits) \o <<"_">> \o title)

\* The file of a lecture's video.
VideoFileName(n, title) ==
    Str(n) \o <<"_">> \o sanitize_filename(title) \o <<".", "m", "p", "4">>

\* The file of an article lecture: the title as it is.
ArticleFileName(title) == title \o <<".", "h", "t", "m", "l">>

\* "content.asset.body or content.asset.description"
BodyOrDescription(asset) ==
    IF IsNone(asset.body) \/ asset.body = Some("") THEN asset.description ELSE asset.body

\* The downloads the supplementary assets of a lecture ask for, in order: for
\* each asset its stream videos, then its files; all to the asset's sanitized title.
RECURSIVE SupplementaryDownloads(_)
SupplementaryDownloads(assets) ==
    IF assets = <<>> THEN <<>>
    ELSE LET a == Head(assets)
             vs == IF IsNone(a.stream_urls) THEN <<>> ELSE Get(a.stream_urls)
             fs == IF IsNone(a.download_urls) THEN <<>> ELSE Get(a.download_urls)
         IN  [i \in 1..Len(vs) |-> [url |-> vs[i].file_url, name |-> sanitize_filename(a.title)]]
             \o [i \in 1..Len(fs) |-> [url |-> fs[i].file_url, name |-> sanitize_filename(a.title)]]
             \o SupplementaryDownloads(Tail(assets))

\* The lines printed when a lecture's video cannot be resolved.
NotAvailable(content, n) ==
    <<<<"is not available for download", content.title>>, <<"may be DRM-protected", n>>>>

Progress(cur) == <<"progress", total, cur>>

\* download(url, path): the GET, check_response, then the file opened and written.
\* The primed variables it sets: requests, response, log, files, and pc/error on failure.
Download(url, path, status, nextpc) ==
    LET resp == Response(url, status, FALSE, None, None, None)
    IN  /\ requests' = Append(requests, Request("GET", url, status))
        /\ IF check_response_raises(resp)
           THEN /\ log' = write_log(log, resp)
                /\ Raise("NeoUdelerError: status")
                /\ response' = Some(resp)
                /\ UNCHANGED files
           ELSE IF open_raises(dirs, path)
           THEN /\ Raise("FileNotFoundError")
                /\ response' = Some(resp)
                /\ UNCHANGED <<log, files>>
           ELSE /\ files' = write_file(files, path, url, run)
                /\ pc' = nextpc
                /\ response' = Some(resp)
                /\ UNCHANGED <<log, error>>

\* Course.fetch_all_contents, called first by download_all_contents
FetchAllContents(pool) ==
    /\ pc = "download"
    /\ unique_instance' = ConfigCall(unique_instance, env, init_calls)
    /\ init_calls' = ConfigCalls(unique_instance, init_calls)
    /\ \E status \in HttpStatuses,
          results \in (IF curriculum = None THEN pool ELSE {Get(curriculum)}) :
        LET cfg == Get(unique_instance')
            resp == Response(CurriculumUrl(cfg, Get(course).course_id), status, TRUE,
                             None, None, None)
        IN  /\ requests' = Append(requests, Request("GET", resp.url, status))
            /\ IF check_response_raises(resp)
               THEN /\ log' = write_log(log, resp)
                    /\ Raise("NeoUdelerError: status")
                    /\ response' = Some(resp)
                    /\ UNCHANGED <<curriculum, contents>>
               ELSE /\ curriculum' = Some(results)
                    /\ contents' = Some(create_course_contents_list(Get(course).course_id, results))
                    /\ pc' = "make_root"
                    /\ response' = Some(resp)
                    /\ UNCHANGED <<log, error>>
    /\ UNCHANGED <<stdout, line, search_keyword, subscribed_courses, course, answer, env,
                   run, save_dir, chapter_number, lecture_number, chapter_dir, current,
                   cursor, dirs, files, qualityVars, threadVars>>

\* lines 362-379: the course root made unless it exists, the counters and the
\* default chapter directory name set
MakeRoot ==
    /\ pc = "make_root"
    /\ save_dir' = Some(RootDirName(Get(course)))
    /\ dirs' = IF isdir(dirs, join(<<Get(save_dir')>>)) THEN dirs
               ELSE dirs \cup {join(<<Get(save_dir')>>)}
    /\ chapter_number' = 1
    /\ lecture_number' = 1
    /\ chapter_dir' = Some(InitDirName(dirname_prefix_digits))
    /\ current' = 0
    /\ pc' = "walk"
    /\ UNCHANGED <<error, stdout, log, requests, response, line, search_keyword,
                   subscribed_courses, course, answer, curriculum, run, contents, cursor,
                   files, configVars, qualityVars, threadVars>>

\* a chapter entry: its directory removed if it exists, and made
WalkChapter ==
    /\ pc = "walk"
    /\ current < total
    /\ is_chapter(Get(contents)[current + 1])
    /\ LET content == Get(contents)[current + 1]
           name == ChapterDirName(chapter_number, dirname_prefix_digits, content.title)
           path == join(<<Get(save_dir), name>>)
           ds == IF isdir(dirs, path) THEN rmtree_dirs(dirs, path) ELSE dirs
           fs == IF isdir(dirs, path) THEN rmtree_files(files, path) ELSE files
       IN  /\ current' = current + 1
           /\ stdout' = Append(stdout, Progress(current + 1))
           /\ chapter_dir' = Some(name)
           /\ files' = fs
           /\ IF mkdir_raises(ds, fs, path)
              THEN /\ Raise("OSError")
                   /\ dirs' = ds
                   /\ UNCHANGED chapter_number
              ELSE /\ dirs' = ds \cup {path}
                   /\ chapter_number' = chapter_number + 1
                   /\ UNCHANGED <<pc, error>>
    /\ UNCHANGED <<log, requests, response, line, search_keyword, subscribed_courses,
                   course, answer, curriculum, run, contents, save_dir, lecture_number,
                   cursor, configVars, qualityVars, threadVars>>

\* a quiz entry: only the progress is printed
WalkQuiz ==
    /\ pc = "walk"
    /\ current < total
    /\ is_quiz(Get(contents)[current + 1])
    /\ current' = current + 1
    /\ stdout' = Append(stdout, Progress(current + 1))
    /\ UNCHANGED <<pc, error, log, requests, response, line, search_keyword,
                   subscribed_courses, course, answer, curriculum, run, contents, save_dir,
                   chapter_number, lecture_number, chapter_dir, cursor, dirs, files,
                   configVars, qualityVars, threadVars>>

\* a lecture entry, lines 396-409: the video of a video asset downloaded
WalkLecture ==
    /\ pc = "walk"
    /\ current < total
    /\ is_lecture(Get(contents)[current + 1])
    /\ current' = current + 1
    /\ LET content == Get(contents)[current + 1]
           out == Append(stdout, Progress(current + 1))
       IN  IF IsNone(content.asset)
           THEN /\ Raise("AttributeError")
                /\ stdout' = out
                /\ UNCHANGED <<requests, response, log, files>>
           ELSE IF ~is_video(Get(content.asset))
           THEN /\ pc' = "article"
                /\ stdout' = out
                /\ UNCHANGED <<error, requests, response, log, files>>
           ELSE LET streams == Get(content.asset).stream_urls
                    video == IF IsNone(streams) THEN None
                             ELSE get_mp4_by_quality(Get(streams), L720)
                IN  IF IsNone(video)
                    THEN \* the AttributeError is caught by the except clause
                         /\ pc' = "article"
                         /\ stdout' = out \o NotAvailable(content, lecture_number)
                         /\ UNCHANGED <<error, requests, response, log, files>>
                    ELSE /\ stdout' = out
                         /\ \E status \in HttpStatuses :
                              Download(Get(video).file_url,
                                       join(<<Get(save_dir), Get(chapter_dir),
                                              VideoFileName(lecture_number, content.title)>>),
                                       status, "article")
    /\ UNCHANGED <<line, search_keyword, subscribed_courses, course, answer, curriculum,
                   run, contents, save_dir, chapter_number, lecture_number, chapter_dir,
                   cursor, dirs, configVars, qualityVars, threadVars>>

\* lines 411-416: the article written, and the supplementary assets read
LectureArticle ==
    /\ pc = "article"
    /\ LET content == Get(contents)[current]
           asset == Get(content.asset)
           html == BodyOrDescription(asset)
           path == join(<<Get(save_dir), Get(chapter_dir), ArticleFileName(content.title)>>)
       IN  IF is_article(asset) /\ open_raises(dirs, path)
           THEN /\ Raise("FileNotFoundError")
                /\ UNCHANGED <<files, cursor>>
           ELSE IF is_article(asset) /\ IsNone(html)
           THEN /\ Raise("TypeError")
                /\ files' = write_file(files, path, "", run)
                /\ UNCHANGED cursor
           ELSE /\ files' = IF is_article(asset)
                            THEN write_file(files, path, Get(html), run) ELSE files
                /\ IF IsNone(content.supplementary_assets)
                   THEN /\ Raise("AttributeError")
                        /\ UNCHANGED cursor
                   ELSE /\ pc' = "supplementary"
                        /\ cursor' = 0
                        /\ UNCHANGED error
    /\ UNCHANGED <<stdout, log, requests, response, line, search_keyword, subscribed_courses,
                   course, answer, curriculum, run, contents, save_dir, chapter_number,
                   lecture_number, chapter_dir, current, dirs, configVars, qualityVars,
                   threadVars>>

\* lines 417-436: one download of the lecture's supplementary assets
SupplementaryDownload ==
    /\ pc = "supplementary"
    /\ LET todo == SupplementaryDownloads(Get(Get(contents)[current].supplementary_assets))
       IN  /\ cursor < Len(todo)
           /\ cursor' = cursor + 1
           /\ \E status \in HttpStatuses :
                Download(todo[cursor + 1].url,
                         join(<<Get(save_dir), Get(chapter_dir), todo[cursor + 1].name>>),
                         status, "supplementary")
    /\ UNCHANGED <<stdout, line, search_keyword, subscribed_courses, course, answer,
                   curriculum, run, contents, save_dir, chapter_number, lecture_number,
                   chapter_dir, current, dirs, configVars, qualityVars, threadVars>>

\* line 438: the lecture is done
LectureEnd ==
    /\ pc = "supplementary"
    /\ cursor = Len(SupplementaryDownloads(Get(Get(contents)[current].supplementary_assets)))
    /\ lecture_number' = lecture_number + 1
    /\ pc' = "walk"
    /\ UNCHANGED <<error, stdout, log, requests, response, line, search_keyword,
                   subscribed_courses, course, answer, curriculum, run, contents, save_dir,
                   chapter_number, chapter_dir, current, cursor, dirs, files, configVars,
                   qualityVars, threadVars>>

\* line 440: the loop is over
FinishDownload ==
    /\ pc = "walk"
    /\ current = total
    /\ stdout' = Append(stdout, <<"The course has been downloaded:", Get(save_dir)>>)
    /\ pc' = "done"
    /\ UNCHANGED <<error, log, requests, response, line, search_keyword, subscribed_courses,
                   course, answer, downloadVars, configVars, qualityVars, threadVars>>

\* download_all_contents called again on the same output directory
RunAgain ==
    /\ pc \in {"done", "crashed"}
    /\ run < MaxRuns
    /\ run' = run + 1
    /\ pc' = "download"
    /\ contents' = None
    /\ save_dir' = None
    /\ chapter_dir' = None
    /\ chapter_number' = 0
    /\ lecture_number' = 0
    /\ current' = 0
    /\ cursor' = 0
    /\ error' = None
    /\ UNCHANGED <<stdout, log, requests, response, line, search_keyword,
                   subscribed_courses, course, answer, curriculum, dirs, files,
                   configVars, qualityVars, threadVars>>

WalkNext ==
    \/ MakeRoot
    \/ WalkChapter
    \/ WalkQuiz
    \/ WalkLecture
    \/ LectureArticle
    \/ SupplementaryDownload
    \/ LectureEnd
    \/ FinishDownload

\* ------------------------------------------------ the program: main()
Init ==
    /\ pc = "main"
    /\ env \in {EnvFile(e, p, t) : e \in {None, Some(""), Some("u@example.com")},
                                   p \in {None, Some("pw")},
                                   t \in EnvTokens}
    /\ unique_instance = None
    /\ init_calls = 0
    /\ error = None /\ stdout = <<>> /\ log = <<>> /\ requests = <<>>
    /\ response = None /\ line = None /\ search_keyword = None
    /\ subscribed_courses = None /\ course = None /\ answer = None
    /\ curriculum = None /\ run = 1 /\ contents = None /\ save_dir = None
    /\ chapter_number = 0 /\ lecture_number = 0 /\ chapter_dir = None
    /\ current = 0 /\ cursor = 0 /\ dirs = {} /\ files = {}
    /\ QualityIdle /\ ThreadsIdle

Next == MainNext \/ FetchAllContents(CliCurricula) \/ WalkNext
Spec == Init /\ [][Next]_vars

\* ----------------------- download_all_contents of one Course, run and run again
TheCourse == create_course_list(NewConfig(EnvFile(None, None, None), 0), <<CourseJson>>)[1]

InitDownload ==
    /\ pc = "download"
    /\ env = EnvFile(Some("u@example.com"), Some("pw"), Some("tok"))
    /\ unique_instance = None
    /\ init_calls = 0
    /\ error = None /\ stdout = <<>> /\ log = <<>> /\ requests = <<>>
    /\ response = None /\ line = None /\ search_keyword = None
    /\ subscribed_courses = None /\ answer = None
    /\ course = Some(TheCourse)
    /\ curriculum = None /\ run = 1 /\ contents = None /\ save_dir = None
    /\ chapter_number = 0 /\ lecture_number = 0 /\ chapter_dir = None
    /\ current = 0 /\ cursor = 0 /\ dirs = {} /\ files = {}
    /\ QualityIdle /\ ThreadsIdle

NextDownload == FetchAllContents(Curricula(MaxItems)) \/ WalkNext \/ RunAgain
SpecDownload == InitDownload /\ [][NextDownload]_vars

\* --------------------------------- the classes used by a client program
\* In main() the listing is called once, right after a construction that has
\* stored a token or ended in an exception. Here a client constructs the
\* downloader and then, in any order, assigns to the access_token property of
\* the shared Config object and calls fetch_subscribed_courses, catching the
\* exceptions of these calls. pc = "prompt_keyword" is the client between calls.
ClientTokens == {None, Some(""), Some("tok")}
ClientKeywords == {None, Some(<<"p", "y">>)}

InitClient ==
    /\ pc = "new_downloader"
    /\ env \in {EnvFile(Some("u@example.com"), Some("pw"), t) : t \in EnvTokens}
    /\ unique_instance = None
    /\ init_calls = 0
    /\ error = None /\ stdout = <<>> /\ log = <<>> /\ requests = <<>>
    /\ response = None /\ line = None /\ search_keyword = None
    /\ subscribed_courses = None /\ course = None /\ answer = None
    /\ curriculum = None /\ run = 1 /\ contents = None /\ save_dir = None
    /\ chapter_number = 0 /\ lecture_number = 0 /\ chapter_dir = None
    /\ current = 0 /\ cursor = 0 /\ dirs = {} /\ files = {}
    /\ QualityIdle /\ ThreadsIdle

\* Config().access_token = token: the attribute is assigned, then
\* dotenv.set_key writes the value, raising AttributeError for None.
ClientSetAccessToken ==
    /\ pc = "prompt_keyword"
    /\ \E token \in ClientTokens :
        /\ unique_instance' = Some(SetTokenInMemory(Get(unique_instance), token))
        /\ IF IsNone(token)
           THEN error' = Some("AttributeError") /\ UNCHANGED env
           ELSE env' = SetKey(env, token) /\ error' = None
    /\ UNCHANGED <<pc, stdout, log, requests, response, line, search_keyword,
                   subscribed_courses, course, answer, init_calls,
                   qualityVars, threadVars, downloadVars>>

\* the client calls fetch_subscribed_courses(search_keyword)
ClientCallFetch ==
    /\ pc = "prompt_keyword"
    /\ Len(requests) < MaxClientRequests
    /\ \E keyword \in ClientKeywords : search_keyword' = keyword
    /\ error' = None
    /\ pc' = "fetch_courses"
    /\ UNCHANGED <<stdout, log, requests, response, line, subscribed_courses,
                   course, answer, configVars, qualityVars, threadVars, downloadVars>>

\* the call has returned the list, or raised and the client has caught it
ClientReturn ==
    /\ \/ pc = "listed"
       \/ /\ pc = "crashed"
          /\ \/ error = Some("NeoUdelerError: Not Authenticated")
             \/ /\ error = Some("NeoUdelerError: status")
                /\ Last(requests).url = CoursesUrl(Get(unique_instance))
    /\ pc' = "prompt_keyword"
    /\ subscribed_courses' = None
    /\ UNCHANGED <<error, stdout, log, requests, response, line, search_keyword,
                   course, answer, configVars, qualityVars, threadVars, downloadVars>>

NextClient ==
    \/ NewDownloader
    \/ LoginGet
    \/ LoginPost
    \/ ClientSetAccessToken
    \/ ClientCallFetch
    \/ FetchSubscribedCourses
    \/ ClientReturn
SpecClient == InitClient /\ [][NextClient]_vars

\* ------------------------- mkdir_unless_already_exists called on its own
\* The function is called by no other code of the module; here a caller
\* applies it to paths of a small tree and keeps the exception of each call.
MkdirNames == {<<"r", "o", "o", "t">>, <<"x">>, <<"n", "o", "n", "e">>}
MkdirPaths == {<<a>> : a \in MkdirNames} \cup {<<a, b>> : a, b \in MkdirNames}

InitMkdir ==
    /\ pc = "mkdir"
    /\ dirs \in {{}, {<<<<"r", "o", "o", "t">>>>}}
    /\ files \in {{}, {[path |-> <<<<"x">>>>, data |-> "", run |-> 1]}}
    /\ error = None /\ stdout = <<>> /\ log = <<>> /\ requests = <<>>
    /\ response = None /\ line = None /\ search_keyword = None
    /\ subscribed_courses = None /\ course = None /\ answer = None
    /\ curriculum = None /\ run = 1 /\ contents = None /\ save_dir = None
    /\ chapter_number = 0 /\ lecture_number = 0 /\ chapter_dir = None
    /\ current = 0 /\ cursor = 0
    /\ env = EnvFile(None, None, None) /\ unique_instance = None /\ init_calls = 0
    /\ QualityIdle /\ ThreadsIdle

CallMkdirUnlessAlreadyExists ==
    /\ pc = "mkdir"
    /\ \E path \in MkdirPaths :
        /\ error' = mkdir_unless_already_exists_error(dirs, files, path)
        /\ dirs' = mkdir_unless_already_exists(dirs, files, path)
    /\ UNCHANGED <<pc, stdout, log, requests, response, line, search_keyword,
                   subscribed_courses, course, answer, curriculum, run, contents, save_dir,
                   chapter_number, lecture_number, chapter_dir, current, cursor, files,
                   configVars, qualityVars, threadVars>>

SpecMkdir == InitMkdir /\ [][CallMkdirUnlessAlreadyExists]_vars


\* ====================================================================
\* Properties
\* ====================================================================
TokenInMemory == Get(unique_instance)._access_token

\* C1: a login step whose response is a failure (a status other than 200, or
\* a 200 with a JSON error field) ends in an exception and leaves the token
\* as it was, in the Config object and in the .env file.
C1_FailedLoginWritesNoToken ==
    [][(/\ pc \in {"login_get", "login_post"}
        /\ \/ Get(response').status_code # 200
           \/ Get(response').json_ok /\ ~IsNone(Get(response').json_error))
       => /\ pc' = "crashed"
          /\ ~IsNone(error')
          /\ TokenInMemory' = TokenInMemory
          /\ env' = env]_vars

\* C1: a login rejected with status 200 and an error field has ended the run,
\* and the .env file still has no token.
C1_Witness ==
    /\ pc = "crashed"
    /\ Len(requests) = 2
    /\ Last(requests).method = "POST"
    /\ Get(response).status_code = 200
    /\ ~IsNone(Get(response).json_error)
    /\ IsNone(env["ACCESS_TOKEN"])
    /\ IsNone(TokenInMemory)

\* C2: fetch_subscribed_courses called while the stored token is None or the
\* empty string raises 'Not Authenticated', sends no request, and leaves the
\* Config object and the .env file as they were.
C2_NoTokenNoListing ==
    [][(pc = "fetch_courses" /\ TokenInMemory \in {None, Some("")})
       => /\ pc' = "crashed"
          /\ error' = Some("NeoUdelerError: Not Authenticated")
          /\ requests' = requests
          /\ unique_instance' = unique_instance
          /\ env' = env]_vars

\* C2: after a login and a listing, the token was set to the empty string
\* and the next listing was refused, with no request after the first listing's.
C2_Witness ==
    /\ pc = "crashed"
    /\ error = Some("NeoUdelerError: Not Authenticated")
    /\ TokenInMemory = Some("")
    /\ env["ACCESS_TOKEN"] = Some("")
    /\ Len(requests) = 3
    /\ Last(requests).url = CoursesUrl(Get(unique_instance))

\* A typed line that is 'y' or 'yes' in any letter case, with any whitespace
\* before and after it.
YesWords == {<<"y">>, <<"Y">>} \cup {<<a, b, c>> : a \in {"y", "Y"}, b \in {"e", "E"}, c \in {"s", "S"}}
AcceptedLine(raw) ==
    \E w \in YesWords, i \in 0..Len(raw) :
        /\ i + Len(w) <= Len(raw)
        /\ SubSeq(raw, i + 1, i + Len(w)) = w
        /\ \A k \in 1..Len(raw) : (k <= i \/ k > i + Len(w)) => raw[k] \in {" ", "\t", "\n"}

\* C3: at the confirmation, download_all_contents is entered exactly when
\* the typed line is an accepted one; otherwise 'Download is stopped' is
\* printed and the program exits with no request sent and nothing on disk changed.
C3_ConfirmationGate ==
    [][pc = "confirm"
       => IF AcceptedLine(Get(line))
          THEN pc' = "download"
          ELSE /\ pc' = "exited"
               /\ Last(stdout') = <<"Download is stopped">>
               /\ requests' = requests
               /\ dirs' = dirs /\ files' = files
               /\ contents' = None]_vars

\* C3: a line was accepted as 'yes' and download_all_contents is entered.
C3_Witness ==
    /\ pc = "download"
    /\ answer = Some(<<"y", "e", "s">>)
    /\ line = None

\* C4: what get_mp4_by_quality returns is an mp4 variant, the first mp4
\* variant of the list with the requested label.
C4_ExactMatchIsMp4 ==
    (called /\ ~IsNone(result))
    => /\ Get(result).video_format = VIDEO_MPEG4
       /\ Get(result).quality_label = quality
       /\ \E i \in 1..Len(videos) :
            /\ videos[i] = Get(result)
            /\ \A j \in 1..(i - 1) :
                 ~(videos[j].video_format = VIDEO_MPEG4 /\ videos[j].quality_label = quality)

\* C5: when no variant has the requested label and the list has an mp4
\* variant, get_mp4_by_quality returns an mp4 variant whose label no other
\* mp4 variant's label exceeds in string order.
C5_FallbackIsHighestMp4 ==
    (/\ called
     /\ \A i \in 1..Len(videos) : videos[i].quality_label # quality
     /\ \E i \in 1..Len(videos) : videos[i].video_format = VIDEO_MPEG4)
    => /\ ~IsNone(result)
       /\ \E i \in 1..Len(videos) : videos[i] = Get(result)
       /\ Get(result).video_format = VIDEO_MPEG4
       /\ \A j \in 1..Len(videos) :
            videos[j].video_format = VIDEO_MPEG4
            => ~StrLess(Get(result).quality_label, videos[j].quality_label)

\* A lecture for which no playable stream is resolvable: no asset, a video
\* asset without stream URLs, or a video asset with no variant labelled 720.
NoPlayableStream(content) ==
    \/ IsNone(content.asset)
    \/ /\ Get(content.asset).asset_type = AssetVIDEO
       /\ \/ IsNone(Get(content.asset).stream_urls)
          \/ \A i \in 1..Len(Get(Get(content.asset).stream_urls)) :
                Get(Get(content.asset).stream_urls)[i].quality_label # L720

\* C6: the walk, coming to a lecture with no playable stream, reports it and
\* goes on: the step does not end the run with an exception.
C6_UnplayableLectureIsSkipped ==
    [][(/\ pc = "walk"
        /\ current < total
        /\ Get(contents)[current + 1].course_content_type = LECTURE
        /\ NoPlayableStream(Get(contents)[current + 1]))
       => /\ pc' # "crashed"
          /\ \E i \in 1..Len(stdout') :
               stdout'[i] = <<"is not available for download", Get(contents)[current + 1].title>>]_vars

\* C7: the log has one entry per HTTP call sent, with the call's URL and the
\* status returned.
C7_EveryCallLogged ==
    /\ Len(log) = Len(requests)
    /\ \A i \in 1..Len(log) :
         log[i] = [url |-> requests[i].url, status_code |-> requests[i].status_code]

\* C8: Config.__init__ has run at most once, and the threads that Config()
\* has returned to all hold the one object.
C8_OneInstance ==
    /\ init_calls <= 1
    /\ \A t \in DOMAIN tpc : tpc[t] = "done" => ~IsNone(got[t])
    /\ \A t, u \in DOMAIN tpc : (tpc[t] = "done" /\ tpc[u] = "done") => got[t] = got[u]

\* C8: two threads both found no instance at first; one has made it and
\* returned, the other found it under the lock and made none.
C8_Witness ==
    \E t, u \in DOMAIN tpc :
        /\ t # u
        /\ tpc[t] = "done"
        /\ ~IsNone(fresh[t])
        /\ got[t] = unique_instance
        /\ tpc[u] = "release"
        /\ IsNone(fresh[u])

\* The number of decimal digits of n.
Digits(n) == CHOOSE w \in 1..10 : (w = 1 \/ n >= 10 ^ (w - 1)) /\ n < 10 ^ w
\* k written with w digits, zeros in front.
Padded(k, w) == [i \in 1..w |-> DigitChars[((k \div (10 ^ (w - i))) % 10) + 1]]
CountOf(type, n) ==
    Cardinality({i \in 1..n : Get(contents)[i].course_content_type = type})
InWalk == pc \in {"walk", "article", "supplementary", "done"}

\* The chapter directories this run has made so far.
ChapterPathsDone ==
    {join(<<Get(save_dir),
            sanitize_filename(Padded(CountOf(CHAPTER, i), Digits(total)) \o <<"_">>
                              \o Get(contents)[i].title)>>) :
        i \in {j \in 1..current : Get(contents)[j].course_content_type = CHAPTER}}

\* C9: in a later run, a chapter directory the run has come to holds only
\* files this run wrote, and preparing the course root removes nothing: the
\* directories and files of the earlier run are all still there after it.
C9_ChapterReplacedRootReused ==
    /\ [](InWalk => \A f \in files :
                      (\E d \in ChapterPathsDone : IsPrefix(d, f.path)) => f.run = run)
    /\ [][pc = "make_root" => (dirs \subseteq dirs' /\ files' = files
                               /\ join(<<Get(save_dir')>>) \in dirs')]_vars

\* C9: the second run is over; it found the root and a chapter directory of
\* the first run, and the chapter directory now holds a file it wrote.
C9_Witness ==
    /\ run = 2
    /\ pc = "done"
    /\ \E f \in files : f.run = 2 /\ \E d \in ChapterPathsDone : IsPrefix(d, f.path)
    /\ Cardinality({i \in 1..Len(stdout) : stdout[i][1] = "The course has been downloaded:"}) = 2

\* C10: during the walk chapter_number is 1 plus the chapter entries passed
\* and lecture_number 1 plus the lecture entries finished; the current
\* directory is '0..0_init' before the first chapter entry and afterwards
\* starts with the count of chapter entries passed, each written with as
\* many digits as the number of items has.
C10_Numbering ==
    InWalk =>
        /\ chapter_number = 1 + CountOf(CHAPTER, current)
        /\ lecture_number = 1 + CountOf(LECTURE, current)
                              - (IF pc \in {"article", "supplementary"} THEN 1 ELSE 0)
        /\ IF CountOf(CHAPTER, current) = 0
           THEN Get(chapter_dir) = Padded(0, Digits(total)) \o <<"_", "i", "n", "i", "t">>
           ELSE SubSeq(Get(chapter_dir), 1, Digits(total) + 1)
                    = Padded(CountOf(CHAPTER, current), Digits(total)) \o <<"_">>

\* C10: a run over eleven items has passed two chapter entries and a
\* lecture; the current directory starts with '02_'.
C10_Witness ==
    /\ pc = "done"
    /\ total = 11
    /\ chapter_number = 3
    /\ lecture_number = 2
    /\ SubSeq(Get(chapter_dir), 1, 3) = <<"0", "2", "_">>

\* A name the filename sanitizer leaves as it is: it has none of the
\* characters the sanitizer removes or replaces.
Sanitized(name) == sanitize_filename(name) = name

\* C11: every directory and every file of the download has sanitized names
\* only, in every entry of its path: none is created from a title the
\* filename sanitizer has not been applied to.
C11_CreatedNamesSanitized ==
    /\ \A d \in dirs : \A i \in 1..Len(d) : Sanitized(d[i])
    /\ \A f \in files : \A i \in 1..Len(f.path) : Sanitized(f.path[i])

\* The walk is about to write a file of a lecture: the video of the lecture
\* it comes to, the article of the lecture it is in, or the next
\* supplementary download of that lecture.
AboutToWriteLectureFile ==
    \/ /\ pc = "walk"
       /\ current < total
       /\ LET content == Get(contents)[current + 1]
          IN  /\ is_lecture(content)
              /\ ~IsNone(content.asset)
              /\ is_video(Get(content.asset))
              /\ ~IsNone(Get(content.asset).stream_urls)
              /\ ~IsNone(get_mp4_by_quality(Get(Get(content.asset).stream_urls), L720))
    \/ /\ pc = "article"
       /\ is_article(Get(Get(contents)[current].asset))
    \/ /\ pc = "supplementary"
       /\ cursor < Len(SupplementaryDownloads(
                          Get(Get(contents)[current].supplementary_assets)))

\* C12: whenever the walk is about to write a file of a lecture, the current
\* chapter directory exists under the course root; so it is for a lecture
\* that comes before any chapter entry, written into the default directory.
C12_ChapterDirExistsAtWrite ==
    AboutToWriteLectureFile => isdir(dirs, join(<<Get(save_dir), Get(chapter_dir)>>))

====
